---- MODULE Spec2Model ----
(***************************************************************************)
(* ETW Buffer Monitor (src/main.go): the two-phase QueryAllTracesW query,  *)
(* the Bubble Tea model (Init / Update / View) that polls it, and the      *)
(* runtime that delivers timer ticks, query results and key presses to     *)
(* Update one message at a time.                                           *)
(*                                                                         *)
(* Text is kept as sequences of UTF-16 code units (65 is "A"); the         *)
(* model's lastUpdate field is only printed in the header and is left out. *)
(***************************************************************************)
EXTENDS Integers, Sequences, FiniteSets, TLC

\* ------------------------------------------------------------------------
\* Constants of the program
\* ------------------------------------------------------------------------
ERROR_SUCCESS == 0
ERROR_MORE_DATA == 234
MAX_SESSION_NAME_LEN == 1024
\* the statuses the subsystem answers with: the two above and one that is
\* neither (5, access denied)
Statuses == {ERROR_SUCCESS, ERROR_MORE_DATA, 5}

\* the utilization above which a row is "high" (View: utilization > 80)
HIGH_UTILIZATION == 80

\* ------------------------------------------------------------------------
\* Bounds of the model
\* ------------------------------------------------------------------------
\* cap on the queries started and not yet handled by Update
MaxInFlight == 2
\* the largest session count the sizing call reports in QuerySpec
MaxSessions == 2
\* the rows the csv.Writer's buffer holds before it writes them to the file
BufferedRows == 2
\* the most rows the output file has room for
MaxRoom == 3
\* the largest buffer count of a session in CalcSpec
MaxBuffers == 3
\* the longest -interval argument in ArgSpec, in characters
MaxArgLen == 3

\* uint32 arithmetic, on a word scaled down so that products stay in range
Uint32Modulus == 2 ^ 16

Sub32(a, b) == (a - b + Uint32Modulus) % Uint32Modulus

Mul32(a, b) == (a * b) % Uint32Modulus

\* ------------------------------------------------------------------------
\* Text: code units, decoding, ordering
\* ------------------------------------------------------------------------
CodeA == <<65>>
CodeB == <<66>>

RECURSIVE ScanLength(_, _)
\* utf16PtrToString, first loop: the number of code units before the first 0
ScanLength(region, length) ==
    IF length >= Len(region) THEN length
    ELSE IF region[length + 1] = 0 THEN length
    ELSE ScanLength(region, length + 1)

\* utf16PtrToString: the code units of the region up to its first 0
utf16PtrToString(region) ==
    LET length == ScanLength(region, 0)
    IN  IF length = 0 THEN <<>> ELSE SubSeq(region, 1, length)

\* the code units the first loop of utf16PtrToString reads: the ones before
\* the first 0, and that 0
ScanReads(memory) == ScanLength(memory, 0) + 1

\* what lies in memory from the start of a slot's name region on: the name
\* region, right behind it the log-file region, then whatever follows the
\* slot (the next slot, or memory that is not the buffer's)
NameMemory(props) == props.LoggerName \o props.LogFileName \o props.Beyond

\* what lies in memory from the start of a slot's log-file region on
FileMemory(props) == props.LogFileName \o props.Beyond

RECURSIVE StrLess(_, _)
\* Go's < on strings: lexicographic, a proper prefix is smaller
StrLess(a, b) ==
    IF b = <<>> THEN FALSE
    ELSE IF a = <<>> THEN TRUE
    ELSE IF Head(a) # Head(b) THEN Head(a) < Head(b)
    ELSE StrLess(Tail(a), Tail(b))

\* ------------------------------------------------------------------------
\* ETWSession and its calculated properties
\* ------------------------------------------------------------------------
\* a utilization without the guard for a session that has no buffers
UtilizationPercentUnguarded(s) ==
    [num |-> Sub32(s.NumberOfBuffers, s.FreeBuffers) * 100,
     den |-> s.NumberOfBuffers]

\* UtilizationPercent as the exact fraction num/den: the float64 quotient of
\* two uint32 values compares with 80 as the fraction does (4/5*100 is 80.0)
UtilizationPercent(s) ==
    IF s.NumberOfBuffers = 0 THEN [num |-> 0, den |-> 1]
    ELSE [num |-> Sub32(s.NumberOfBuffers, s.FreeBuffers) * 100,
          den |-> s.NumberOfBuffers]

\* utilization > percent, on the fraction
UtilizationAbove(s, percent) ==
    UtilizationPercent(s).num > percent * UtilizationPercent(s).den

\* TotalMemoryMB as the exact fraction num/den: the uint32 product, converted
\* to float64 and divided by 1024.0
TotalMemoryMB(s) ==
    [num |-> Mul32(s.NumberOfBuffers, s.BufferSize), den |-> 1024]

\* the ETWSession built from one returned EVENT_TRACE_PROPERTIES slot
DecodeSession(props, now) ==
    [Name                |-> utf16PtrToString(NameMemory(props)),
     BufferSize          |-> props.BufferSize,
     MinimumBuffers      |-> props.MinimumBuffers,
     MaximumBuffers      |-> props.MaximumBuffers,
     NumberOfBuffers     |-> props.NumberOfBuffers,
     FreeBuffers         |-> props.FreeBuffers,
     BuffersWritten      |-> props.BuffersWritten,
     EventsLost          |-> props.EventsLost,
     RealTimeBuffersLost |-> props.RealTimeBuffersLost,
     LogFileMode         |-> props.LogFileMode,
     LogFileName         |-> IF props.LogFileNameOffset > 0
                             THEN utf16PtrToString(FileMemory(props))
                             ELSE <<>>,
     Timestamp           |-> now]

\* ------------------------------------------------------------------------
\* The slots handed to the data call
\* ------------------------------------------------------------------------
\* the pointer widths Go builds for Windows: 4 bytes (386), 8 (amd64, arm64)
WordSizes == {4, 8}

AlignUp(n, a) == ((n + a - 1) \div a) * a

\* unsafe.Sizeof(WNODE_HEADER{}): two uint32, uint64, int64, [16]byte, two
\* uint32
SizeofWnodeHeader == 4 + 4 + 8 + 8 + 16 + 4 + 4

\* unsafe.Sizeof(EVENT_TRACE_PROPERTIES{}): the Wnode, fourteen 4-byte
\* counters, LoggerThreadId (a uintptr, aligned to its width) and the two
\* 4-byte offsets; the struct is as aligned as its widest field
SizeofEventTraceProperties(wordSize) ==
    AlignUp(AlignUp(SizeofWnodeHeader + 14 * 4, wordSize) + wordSize + 4 + 4,
            wordSize)

\* const propertySize, in bytes
propertySize(wordSize) ==
    SizeofEventTraceProperties(wordSize) + MAX_SESSION_NAME_LEN * 2

\* the allocation loop: slot i starts at byte i*propertySize of the buffer
\* and gets its declared size and its two offsets, all in bytes
PrepareSlots(sessionCount, wordSize) ==
    [k \in 1..sessionCount |->
        [base              |-> (k - 1) * propertySize(wordSize),
         WnodeBufferSize   |-> propertySize(wordSize),
         LoggerNameOffset  |-> SizeofEventTraceProperties(wordSize),
         LogFileNameOffset |-> SizeofEventTraceProperties(wordSize)
                                   + MAX_SESSION_NAME_LEN]]

\* ------------------------------------------------------------------------
\* QueryAllSessions
\* ------------------------------------------------------------------------
\* error values: nil, or the fmt.Errorf text with the raw status in it
NoErr == [text |-> "nil", code |-> 0]
CountErr(ret) == [text |-> "failed to get session count, error", code |-> ret]
QueryErr(ret) == [text |-> "failed to query sessions, error", code |-> ret]

RECURSIVE InsertByName(_, _)
InsertByName(sorted, s) ==
    IF sorted = <<>> THEN <<s>>
    ELSE IF StrLess(s.Name, Head(sorted).Name) THEN <<s>> \o sorted
    ELSE <<Head(sorted)>> \o InsertByName(Tail(sorted), s)

\* a snapshot left in the order the subsystem filled the slots
SortByNameSkipped(sessions) == sessions

RECURSIVE SortByName(_)
\* sort.Slice by Name ascending (the names of one snapshot are distinct)
SortByName(sessions) ==
    IF sessions = <<>> THEN <<>>
    ELSE InsertByName(SortByName(SubSeq(sessions, 1, Len(sessions) - 1)),
                      sessions[Len(sessions)])

\* the decode loop: one ETWSession per returned slot, stamped as it is read
DecodeAll(w) ==
    [i \in 1..w.dataCount |-> DecodeSession(w.slots[i], w.clock[i])]

\* the decode loop's reads: for each returned slot the code units
\* utf16PtrToString reads from the start of the name region and from the
\* start of the log-file region
ScanAll(w) ==
    [i \in 1..w.dataCount |->
        [name |-> ScanReads(NameMemory(w.slots[i])),
         file |-> IF w.slots[i].LogFileNameOffset > 0
                  THEN ScanReads(FileMemory(w.slots[i]))
                  ELSE 0]]

\* a query that hands back what it decoded although the data call failed
QueryAllSessionsPartial(w) ==
    LET sizing == [array |-> 0, count |-> 0]
        data   == [array |-> w.sizingCount, count |-> w.sizingCount]
    IN  IF w.sizingRet # ERROR_MORE_DATA
        THEN [sessions |-> <<>>, err |-> CountErr(w.sizingRet),
              calls |-> <<sizing>>]
        ELSE IF w.sizingCount = 0
        THEN [sessions |-> <<>>, err |-> NoErr, calls |-> <<sizing>>]
        ELSE IF w.dataRet = ERROR_SUCCESS
        THEN [sessions |-> SortByName(DecodeAll(w)), err |-> NoErr,
              calls |-> <<sizing, data>>]
        ELSE [sessions |-> SortByName(DecodeAll(w)), err |-> QueryErr(w.dataRet),
              calls |-> <<sizing, data>>]

\* a query without the early return for a count of 0
QueryAllSessionsNoZeroCheck(w) ==
    LET sizing == [array |-> 0, count |-> 0]
        data   == [array |-> w.sizingCount, count |-> w.sizingCount]
    IN  IF w.sizingRet # ERROR_MORE_DATA
        THEN [sessions |-> <<>>, err |-> CountErr(w.sizingRet),
              calls |-> <<sizing>>]
        ELSE IF w.dataRet = ERROR_SUCCESS
        THEN [sessions |-> SortByName(DecodeAll(w)), err |-> NoErr,
              calls |-> <<sizing, data>>]
        ELSE [sessions |-> <<>>, err |-> QueryErr(w.dataRet),
              calls |-> <<sizing, data>>]

\* One invocation against the subsystem's answers w:
\*   w.sizingRet, w.sizingCount   status and count of the sizing call
\*   w.dataRet, w.dataCount       status and count of the data call
\*   w.slots, w.clock             the slots it fills, the clock at each decode
\* The result carries the native calls made (array length, count passed).
QueryAllSessions(w) ==
    LET sizing == [array |-> 0, count |-> 0]
        data   == [array |-> w.sizingCount, count |-> w.sizingCount]
    IN  IF w.sizingRet # ERROR_MORE_DATA
        THEN [sessions |-> <<>>, err |-> CountErr(w.sizingRet),
              calls |-> <<sizing>>]
        ELSE IF w.sizingCount = 0
        THEN [sessions |-> <<>>, err |-> NoErr, calls |-> <<sizing>>]
        ELSE IF w.dataRet = ERROR_SUCCESS
        THEN [sessions |-> SortByName(DecodeAll(w)), err |-> NoErr,
              calls |-> <<sizing, data>>]
        ELSE [sessions |-> <<>>, err |-> QueryErr(w.dataRet),
              calls |-> <<sizing, data>>]

\* ------------------------------------------------------------------------
\* The subsystem's answers
\* ------------------------------------------------------------------------
\* a filled slot: the counters, and the two text regions as code units
Props(name, buffers, free, lost, written) ==
    [BufferSize          |-> 64,
     MinimumBuffers      |-> 0,
     MaximumBuffers      |-> 0,
     NumberOfBuffers     |-> buffers,
     FreeBuffers         |-> free,
     BuffersWritten      |-> written,
     EventsLost          |-> lost,
     RealTimeBuffersLost |-> 0,
     LogFileMode         |-> 0,
     LogFileNameOffset   |-> 1,
     LoggerName          |-> name \o <<0>>,
     LogFileName         |-> <<0>>,
     Beyond              |-> <<0>>]

World(sizingRet, sizingCount, dataRet, slots) ==
    [sizingRet |-> sizingRet, sizingCount |-> sizingCount,
     dataRet |-> dataRet, dataCount |-> Len(slots),
     slots |-> slots, clock |-> [i \in 1..Len(slots) |-> 0]]

\* the slots the poll loop meets: session A with 5 buffers of which none or
\* one is free (100% and exactly 80% in use), with or without lost events,
\* and session B, steady at 80%
PollSlotsA == {Props(CodeA, 5, free, lost, 0) : free \in {0, 1}, lost \in {0, 1}}
PollSlotsB == {Props(CodeB, 5, 1, 0, 0)}

\* what one poll can meet: a failed sizing call, no session, a failed data
\* call (a session started between the two calls), A or B alone, or B
\* followed by A
PollWorlds ==
    {World(5, 0, ERROR_SUCCESS, <<>>),
     World(ERROR_MORE_DATA, 0, ERROR_SUCCESS, <<>>),
     World(ERROR_MORE_DATA, 1, ERROR_MORE_DATA, <<>>)}
    \cup {World(ERROR_MORE_DATA, 1, ERROR_SUCCESS, <<a>>) :
            a \in PollSlotsA \cup PollSlotsB}
    \cup {World(ERROR_MORE_DATA, 2, ERROR_SUCCESS, <<b, a>>) :
            a \in PollSlotsA, b \in PollSlotsB}

\* ------------------------------------------------------------------------
\* State
\* ------------------------------------------------------------------------
VARIABLES
    showOnce,          \* model.showOnce
    sessions,          \* model.sessions
    previousSessions,  \* model.previousSessions: name -> ETWSession
    err,               \* model.err
    exiting,           \* model.exiting
    phase,             \* the tea.Program: "new", "running", "stopped"
    timer,             \* the tea.Tick timer: "none" or "armed"
    queries,           \* the querySessionsCmd calls not yet handled, oldest first
    quitPending,       \* a tea.Quit command was returned, its QuitMsg not yet received
    lastMsg,           \* the message the runtime dispatched last
    lastCmd,           \* the commands Init or Update returned for it
    world,             \* QuerySpec: the subsystem's answers to one invocation
    result,            \* QuerySpec: what QueryAllSessions returned for them
    build,             \* QuerySpec: the pointer width of the build
    array,             \* QuerySpec: the slots prepared for the data call
    scanned,           \* QuerySpec: the code units read in each decoded slot
    disk,              \* ExportSpec: whether os.Create succeeds, the file's room
    export,            \* ExportSpec: what ExportToCSV returned and left behind
    given,             \* CalcSpec: a session, the snapshot before it, the map
    calc,              \* CalcSpec, ViewSpec: what was calculated or rendered
    args,              \* ArgSpec: os.Args[2:], each argument a sequence of characters
    started            \* ArgSpec: the monitor main started for them

modelVars == <<showOnce, sessions, previousSessions, err, exiting>>
runtimeVars == <<phase, timer, queries, quitPending, lastMsg, lastCmd>>
queryVars == <<world, result, build, array, scanned>>
exportVars == <<disk, export>>
calcVars == <<given, calc>>
argVars == <<args, started>>
offLoopVars == <<queryVars, exportVars, calcVars, argVars>>
vars == <<modelVars, runtimeVars, offLoopVars>>

NotRun == [sessions |-> <<>>, err |-> NoErr, calls |-> <<>>]

\* no invocation of QueryAllSessions outside the poll loop
QueryIdle ==
    /\ world = World(ERROR_MORE_DATA, 0, ERROR_SUCCESS, <<>>)
    /\ result = NotRun
    /\ build = 8
    /\ array = <<>>
    /\ scanned = <<>>

NotExported == [err |-> NoErr, announced |-> FALSE, created |-> FALSE,
                file |-> <<>>, called |-> FALSE, fatal |-> "none"]

\* the export branch of main is not taken
ExportIdle ==
    /\ disk = [createOK |-> TRUE, room |-> 0]
    /\ export = NotExported

NotCalculated == [done |-> FALSE]

\* no session is singled out
CalcIdle ==
    /\ given = [session |-> <<>>, previous |-> <<>>, retained |-> <<>>]
    /\ calc = NotCalculated

NotStarted == [done |-> FALSE]

\* main has not read its arguments
ArgIdle ==
    /\ args = <<>>
    /\ started = NotStarted

\* initialModel(intervalSeconds, showOnce), before Run
Init ==
    /\ showOnce \in BOOLEAN
    /\ sessions = <<>>
    /\ previousSessions = <<>>
    /\ err = NoErr
    /\ exiting = FALSE
    /\ phase = "new"
    /\ timer = "none"
    /\ queries = <<>>
    /\ quitPending = FALSE
    /\ lastMsg = "none"
    /\ lastCmd = {}
    /\ QueryIdle
    /\ ExportIdle
    /\ CalcIdle
    /\ ArgIdle

\* ------------------------------------------------------------------------
\* Commands
\* ------------------------------------------------------------------------
\* runs tea.Batch(tea.Tick(...), m.querySessionsCmd()): the timer is armed
\* and one more query is in flight; the entry remembers who started it and
\* whether the snapshot on display has come from a query started after it
StartTickAndQuery(origin) ==
    /\ timer' = "armed"
    /\ queries' = Append(queries, [origin |-> origin, older |-> FALSE])

\* ------------------------------------------------------------------------
\* model.Init, model.Update
\* ------------------------------------------------------------------------
\* p.Run(): the runtime calls model.Init and runs the commands it returns
TeaInit ==
    /\ phase = "new"
    /\ phase' = "running"
    /\ StartTickAndQuery("Init")
    /\ lastMsg' = "Init"
    /\ lastCmd' = {"tick", "query"}
    /\ UNCHANGED <<modelVars, quitPending, offLoopVars>>

\* Update, case tea.KeyMsg "q" or "ctrl+c" (any other key changes nothing)
UpdateKeyMsg ==
    /\ exiting' = TRUE
    /\ quitPending' = TRUE
    /\ lastMsg' = "KeyMsg"
    /\ lastCmd' = {"quit"}
    /\ UNCHANGED <<showOnce, sessions, previousSessions, err, phase, timer,
                   queries, offLoopVars>>

\* a tick handler with a circuit breaker: no new poll once an error is held
UpdateTickMsgBreaker ==
    /\ IF showOnce \/ err # NoErr
       THEN /\ timer' = "none"
            /\ lastCmd' = {}
            /\ UNCHANGED queries
       ELSE /\ Len(queries) < MaxInFlight
            /\ StartTickAndQuery("tick")
            /\ lastCmd' = {"tick", "query"}
    /\ lastMsg' = "tickMsg"
    /\ UNCHANGED <<modelVars, phase, quitPending, offLoopVars>>

\* a tick handler that polls again in single-shot mode too
UpdateTickMsgAlways ==
    /\ Len(queries) < MaxInFlight
    /\ StartTickAndQuery("tick")
    /\ lastCmd' = {"tick", "query"}
    /\ lastMsg' = "tickMsg"
    /\ UNCHANGED <<modelVars, phase, quitPending, offLoopVars>>

\* Update, case tickMsg (MaxInFlight caps the queries the model follows)
UpdateTickMsg ==
    /\ IF showOnce
       THEN /\ timer' = "none"
            /\ lastCmd' = {}
            /\ UNCHANGED queries
       ELSE /\ Len(queries) < MaxInFlight
            /\ StartTickAndQuery("tick")
            /\ lastCmd' = {"tick", "query"}
    /\ lastMsg' = "tickMsg"
    /\ UNCHANGED <<modelVars, phase, quitPending, offLoopVars>>

\* the loop over m.sessions: m.previousSessions[session.Name] = session
StorePrevious(previous, current) ==
    LET names == {current[i].Name : i \in DOMAIN current}
        last(n) == CHOOSE i \in DOMAIN current :
                       /\ current[i].Name = n
                       /\ \A j \in DOMAIN current :
                              current[j].Name = n => j <= i
    IN  [n \in DOMAIN previous \cup names |->
            IF n \in names THEN current[last(n)] ELSE previous[n]]

\* Update, case sessionsMsg
UpdateSessionsMsg(msg) ==
    /\ previousSessions' = StorePrevious(previousSessions, sessions)
    /\ sessions' = msg
    /\ IF showOnce
       THEN quitPending' = TRUE /\ lastCmd' = {"quit"}
       ELSE UNCHANGED quitPending /\ lastCmd' = {}
    /\ lastMsg' = "sessionsMsg"
    /\ UNCHANGED <<showOnce, err, exiting>>

\* Update, case errMsg
UpdateErrMsg(msg) ==
    /\ err' = msg
    /\ lastMsg' = "errMsg"
    /\ lastCmd' = {}
    /\ UNCHANGED <<showOnce, sessions, previousSessions, exiting, quitPending>>

\* ------------------------------------------------------------------------
\* The runtime: one message at a time, in any order
\* ------------------------------------------------------------------------
\* the user presses q or ctrl+c
KeyPress ==
    /\ phase = "running"
    /\ UpdateKeyMsg

\* the timer fires and its tickMsg is dispatched
TimerFires ==
    /\ phase = "running"
    /\ timer = "armed"
    /\ UpdateTickMsg

Remove(seq, i) == SubSeq(seq, 1, i - 1) \o SubSeq(seq, i + 1, Len(seq))

\* the snapshot of query i goes on display: the queries started before it
\* are older than what is displayed, the ones started after it are not
MarkOlder(seq, i) == [j \in DOMAIN seq |-> [seq[j] EXCEPT !.older = j < i]]

\* querySessionsCmd: one of the queries in flight, in any order, returns and
\* its sessionsMsg or errMsg is dispatched to Update. QueryAllSessions reads
\* the subsystem only, never the model, so its answers are drawn here, when
\* the message is handled.
QueryReturns ==
    /\ phase = "running"
    /\ \E i \in DOMAIN queries, w \in PollWorlds :
          LET r == QueryAllSessions(w)
          IN  IF r.err # NoErr
              THEN /\ UpdateErrMsg(r.err)
                   /\ queries' = Remove(queries, i)
              ELSE /\ UpdateSessionsMsg(r.sessions)
                   /\ queries' = Remove(MarkOlder(queries, i), i)
    /\ UNCHANGED <<phase, timer, offLoopVars>>

\* the QuitMsg of tea.Quit is received: Run returns
QuitMsg ==
    /\ phase = "running"
    /\ quitPending
    /\ phase' = "stopped"
    /\ quitPending' = FALSE
    /\ lastMsg' = "QuitMsg"
    /\ lastCmd' = {}
    /\ UNCHANGED <<modelVars, timer, queries, offLoopVars>>

Next ==
    \/ TeaInit
    \/ KeyPress
    \/ TimerFires
    \/ QueryReturns
    \/ QuitMsg

Spec == Init /\ [][Next]_vars

\* The runtime's scheduling: an armed timer fires, a started query returns
\* (the native call is bounded by the subsystem's latency), and a message
\* sent to the event loop is received.
LiveSpec ==
    /\ Spec
    /\ WF_vars(TeaInit)
    /\ WF_vars(TimerFires)
    /\ WF_vars(QueryReturns)
    /\ WF_vars(QuitMsg)

\* ------------------------------------------------------------------------
\* One invocation of QueryAllSessions on its own (QuerySpec)
\* ------------------------------------------------------------------------
\* the text regions the subsystem fills: "", "A", "B", "AB", each ended by
\* a zero code unit, one with a stale unit behind it
QueryRegions == {<<0, 66>>, <<65, 0>>, <<66, 0>>, <<65, 66, 0>>}

\* slots whose text fills a region to its end, with no zero code unit in
\* it: the name region alone, or the log-file region too, followed by
\* memory that does not start with a 0
UnterminatedSlots ==
    {[Props(<<>>, 5, 1, 2, 7) EXCEPT !.LoggerName = <<65, 66>>],
     [Props(<<>>, 5, 1, 2, 7) EXCEPT
         !.LoggerName = <<65, 66>>, !.LogFileName = <<67>>,
         !.Beyond = <<68, 0>>]}

QuerySlots ==
    {[Props(<<>>, stats[1], stats[2], stats[3], stats[4])
          EXCEPT !.LoggerName = region] :
        region \in QueryRegions, stats \in {<<0, 0, 0, 0>>, <<5, 1, 2, 7>>}}
    \cup UnterminatedSlots

\* the sequences of at most n slots whose decoded names differ (the
\* subsystem keeps session names unique)
RECURSIVE SlotSeqs(_)
SlotSeqs(n) ==
    IF n = 0 THEN {<<>>}
    ELSE LET shorter == SlotSeqs(n - 1)
             fresh(seq, slot) ==
                 \A i \in DOMAIN seq :
                     utf16PtrToString(NameMemory(seq[i]))
                         # utf16PtrToString(NameMemory(slot))
         IN  shorter \cup
             {Append(p[1], p[2]) :
                 p \in {q \in shorter \X QuerySlots :
                           Len(q[1]) = n - 1 /\ fresh(q[1], q[2])}}

\* every pair of answers: any status and count from the sizing call, any
\* status from the data call, and at most as many filled slots as asked for
\* time.Now() at the decode of each of n slots: the clock stands still, or
\* it advances by one tick from each decode to the next
DecodeClocks(n) == {[i \in 1..n |-> 0], [i \in 1..n |-> i - 1]}

QueryWorlds ==
    UNION {{[World(q[1], q[2], q[3], q[4]) EXCEPT !.clock = c] :
                c \in DecodeClocks(Len(q[4]))} :
        q \in {x \in Statuses \X (0..MaxSessions) \X Statuses
                       \X SlotSeqs(MaxSessions) : Len(x[4]) <= x[2]}}

\* no Bubble Tea program: the model and the runtime at rest
LoopIdle ==
    /\ showOnce = FALSE
    /\ sessions = <<>>
    /\ previousSessions = <<>>
    /\ err = NoErr
    /\ exiting = FALSE
    /\ phase = "new"
    /\ timer = "none"
    /\ queries = <<>>
    /\ quitPending = FALSE
    /\ lastMsg = "none"
    /\ lastCmd = {}

QueryInit ==
    /\ LoopIdle
    /\ world \in QueryWorlds
    /\ build \in WordSizes
    /\ result = NotRun
    /\ array = <<>>
    /\ scanned = <<>>
    /\ ExportIdle
    /\ CalcIdle
    /\ ArgIdle

\* monitor.QueryAllSessions(), as checkAdminPrivileges and the export branch
\* of main call it
RunQuery ==
    /\ result = NotRun
    /\ result' = QueryAllSessions(world)
    /\ array' = IF world.sizingRet = ERROR_MORE_DATA /\ world.sizingCount > 0
                THEN PrepareSlots(world.sizingCount, build)
                ELSE <<>>
    /\ scanned' = IF result'.err = NoErr /\ Len(result'.calls) = 2
                  THEN ScanAll(world)
                  ELSE <<>>
    /\ UNCHANGED <<modelVars, runtimeVars, world, build, exportVars, calcVars,
                   argVars>>

QueryNext == RunQuery

QuerySpec == QueryInit /\ [][QueryNext]_vars

\* ------------------------------------------------------------------------
\* ExportToCSV and the export branch of main (ExportSpec)
\* ------------------------------------------------------------------------
CreateErr == [text |-> "failed to create CSV file", code |-> 0]
HeaderErr == [text |-> "failed to write CSV header", code |-> 0]
RecordErr == [text |-> "failed to write CSV record", code |-> 0]

\* the rows handed to writer.Write: the header, then one record per session
CsvRows(snapshot) ==
    <<[kind |-> "header"]>>
        \o [i \in DOMAIN snapshot |->
               [kind |-> "record", SessionName |-> snapshot[i].Name]]

\* the buffered writer under csv.Writer writes what it holds to the file; a
\* file without room takes what fits and the writer keeps the error
FlushBuffer(w, room) ==
    IF w.failed THEN w
    ELSE LET free == room - Len(w.file)
             fits == IF Len(w.buffered) <= free THEN Len(w.buffered) ELSE free
         IN  [file     |-> w.file \o SubSeq(w.buffered, 1, fits),
              buffered |-> SubSeq(w.buffered, fits + 1, Len(w.buffered)),
              failed   |-> fits < Len(w.buffered)]

\* writer.Write(row): the row goes to the buffer, which is written out first
\* when it is full; Write returns the error the writer holds
WriteRow(w, row, room) ==
    IF w.failed THEN w
    ELSE IF Len(w.buffered) < BufferedRows
    THEN [w EXCEPT !.buffered = Append(@, row)]
    ELSE LET flushed == FlushBuffer(w, room)
         IN  IF flushed.failed THEN flushed
             ELSE [flushed EXCEPT !.buffered = <<row>>]

RECURSIVE WriteRows(_, _, _, _)
\* the Write calls in order, up to the first that returns an error;
\* failedAt is its position, 0 when none fails
WriteRows(w, rows, k, room) ==
    IF k > Len(rows) THEN [w |-> w, failedAt |-> 0]
    ELSE LET next == WriteRow(w, rows[k], room)
         IN  IF next.failed THEN [w |-> next, failedAt |-> k]
             ELSE WriteRows(next, rows, k + 1, room)

\* ExportToCSV(sessions, filename) on a file system fs: the returned error,
\* whether "Buffer statistics exported to" was printed, and the rows in the
\* file once the deferred Flush and Close have run (the result of Flush is
\* not looked at)
ExportToCSV(snapshot, fs) ==
    IF ~fs.createOK
    THEN [err |-> CreateErr, announced |-> FALSE, created |-> FALSE,
          file |-> <<>>]
    ELSE LET empty  == [file |-> <<>>, buffered |-> <<>>, failed |-> FALSE]
             out    == WriteRows(empty, CsvRows(snapshot), 1, fs.room)
             closed == FlushBuffer(out.w, fs.room)
         IN  [err       |-> IF out.failedAt = 1 THEN HeaderErr
                            ELSE IF out.failedAt > 1 THEN RecordErr
                            ELSE NoErr,
              announced |-> out.failedAt = 0,
              created   |-> TRUE,
              file      |-> closed.file]

\* main -export on a file system that may refuse the file or run out of
\* room after any number of rows
ExportInit ==
    /\ LoopIdle
    /\ world \in PollWorlds
    /\ build = 8
    /\ result = NotRun
    /\ array = <<>>
    /\ scanned = <<>>
    /\ disk \in [createOK : BOOLEAN, room : 0..MaxRoom]
    /\ export = NotExported
    /\ CalcIdle
    /\ ArgIdle

\* an export branch that exports whatever the query handed back
ExportCaseIgnoringError(r, fs) ==
    LET e == ExportToCSV(r.sessions, fs)
    IN  [err |-> e.err, announced |-> e.announced, created |-> e.created,
         file |-> e.file, called |-> TRUE,
         fatal |-> IF e.err # NoErr THEN "Error exporting to CSV" ELSE "none"]

\* main, case "-export", after the query returned r: log.Fatalf on its
\* error, before ExportToCSV; otherwise ExportToCSV, and log.Fatalf on the
\* error it returns
ExportCase(r, fs) ==
    IF r.err # NoErr
    THEN [NotExported EXCEPT !.fatal = "Error querying sessions"]
    ELSE LET e == ExportToCSV(r.sessions, fs)
         IN  [err |-> e.err, announced |-> e.announced, created |-> e.created,
              file |-> e.file, called |-> TRUE,
              fatal |-> IF e.err # NoErr THEN "Error exporting to CSV"
                        ELSE "none"]

\* main, case "-export": what follows the query
RunExport ==
    /\ result # NotRun
    /\ export = NotExported
    /\ export' = ExportCase(result, disk)
    /\ UNCHANGED <<modelVars, runtimeVars, queryVars, disk, calcVars, argVars>>

ExportNext ==
    \/ RunQuery
    \/ RunExport

ExportSpec == ExportInit /\ [][ExportNext]_vars

\* ------------------------------------------------------------------------
\* model.View
\* ------------------------------------------------------------------------
\* a comparison of the whole record with the one in the map
HasChangesInAnyField(previous, session) ==
    /\ session.Name \in DOMAIN previous
    /\ previous[session.Name] # session

\* hasChanges: the name is in the map and a watched counter differs
HasChangesIn(previous, session) ==
    /\ session.Name \in DOMAIN previous
    /\ LET previousSession == previous[session.Name]
       IN  \/ previousSession.NumberOfBuffers # session.NumberOfBuffers
           \/ previousSession.FreeBuffers # session.FreeBuffers
           \/ previousSession.EventsLost # session.EventsLost
           \/ previousSession.BuffersWritten # session.BuffersWritten

hasChanges(session) == HasChangesIn(previousSessions, session)

\* a row style that looks at the utilization before the lost events
RowStyleUtilizationFirst(session) ==
    IF UtilizationAbove(session, HIGH_UTILIZATION) THEN "high utilization"
    ELSE IF session.EventsLost > 0 THEN "lost events"
    ELSE IF hasChanges(session) /\ ~showOnce THEN "changed"
    ELSE "normal"

\* the row's colour: 196 lost events, 208 high utilization, 120 changed,
\* 252 normal
RowStyle(session) ==
    IF session.EventsLost > 0 THEN "lost events"
    ELSE IF UtilizationAbove(session, HIGH_UTILIZATION) THEN "high utilization"
    ELSE IF hasChanges(session) /\ ~showOnce THEN "changed"
    ELSE "normal"

RECURSIVE CountWarningsExclusive(_, _, _)
\* a warning loop that counts a session under one heading only
CountWarningsExclusive(snapshot, k, counts) ==
    IF k > Len(snapshot) THEN counts
    ELSE LET high == UtilizationAbove(snapshot[k], HIGH_UTILIZATION)
             lost == snapshot[k].EventsLost > 0
         IN  CountWarningsExclusive(snapshot, k + 1,
                 [highUtilSessions  |-> counts.highUtilSessions
                                            + (IF high THEN 1 ELSE 0),
                  lostEventSessions |-> counts.lostEventSessions
                                            + (IF ~high /\ lost THEN 1 ELSE 0)])

RECURSIVE CountWarnings(_, _, _)
\* the loop over m.sessions that counts highUtilSessions and
\* lostEventSessions, from session k on
CountWarnings(snapshot, k, counts) ==
    IF k > Len(snapshot) THEN counts
    ELSE LET high == UtilizationAbove(snapshot[k], HIGH_UTILIZATION)
             lost == snapshot[k].EventsLost > 0
         IN  CountWarnings(snapshot, k + 1,
                 [highUtilSessions  |-> counts.highUtilSessions
                                            + (IF high THEN 1 ELSE 0),
                  lostEventSessions |-> counts.lostEventSessions
                                            + (IF lost THEN 1 ELSE 0)])

\* the warning box: rendered when one of the two counts is above 0, with a
\* bullet for each count above 0
WarningBox(snapshot) ==
    LET counts == CountWarnings(snapshot, 1,
                      [highUtilSessions |-> 0, lostEventSessions |-> 0])
    IN  [shown   |-> counts.highUtilSessions > 0 \/ counts.lostEventSessions > 0,
         bullets |-> (IF counts.highUtilSessions > 0
                      THEN {"high buffer utilization"} ELSE {})
                     \cup (IF counts.lostEventSessions > 0
                           THEN {"lost events"} ELSE {}),
         highUtilSessions  |-> counts.highUtilSessions,
         lostEventSessions |-> counts.lostEventSessions]

\* without sessions View returns before the table, the summary and the
\* warnings
View ==
    IF exiting THEN [screen |-> "shutdown"]
    ELSE IF err # NoErr THEN [screen |-> "error", err |-> err]
    ELSE IF sessions = <<>> THEN [screen |-> "table", rows |-> <<>>]
    ELSE [screen |-> "table",
          rows |-> [i \in DOMAIN sessions |-> RowStyle(sessions[i])],
          warningBox |-> WarningBox(sessions)]

\* ------------------------------------------------------------------------
\* The calculated properties of one session (CalcSpec)
\* ------------------------------------------------------------------------
\* the record of a session as a poll decoded it first
BaseSession(name) ==
    [Name                |-> name,
     BufferSize          |-> 64,
     MinimumBuffers      |-> 0,
     MaximumBuffers      |-> 0,
     NumberOfBuffers     |-> 1,
     FreeBuffers         |-> 1,
     BuffersWritten      |-> 0,
     EventsLost          |-> 0,
     RealTimeBuffersLost |-> 0,
     LogFileMode         |-> 0,
     LogFileName         |-> <<>>,
     Timestamp           |-> 0]

\* the fields of ETWSession that hasChanges does not look at
OtherFields ==
    {"BufferSize", "MinimumBuffers", "MaximumBuffers", "RealTimeBuffersLost",
     "LogFileMode", "LogFileName", "Timestamp"}

\* the record with other values in the named fields
Touched(s, fields) ==
    [f \in DOMAIN s |->
        IF f \notin fields THEN s[f]
        ELSE IF f = "LogFileName" THEN CodeB
        ELSE IF f = "BufferSize" THEN Uint32Modulus \div 2
        ELSE s[f] + 1]

\* session A as a later poll decodes it: any buffer counts (also more free
\* buffers than buffers, which nothing in the decoder excludes), lost events
\* and written buffers or not, and none, one or all of the other fields moved
CalcSessions ==
    {[Touched(BaseSession(CodeA), fields) EXCEPT
          !.NumberOfBuffers = n[1], !.FreeBuffers = n[2],
          !.EventsLost = n[3], !.BuffersWritten = n[4]] :
        fields \in {{}, OtherFields} \cup {{f} : f \in OtherFields},
        n \in (0..MaxBuffers) \X (0..MaxBuffers) \X {0, 1} \X {0, 1}}

\* the snapshot displayed before: empty, session A, or session B only; and
\* the map kept before that: empty, or a record of A from an older poll
CalcInit ==
    /\ LoopIdle
    /\ QueryIdle
    /\ ExportIdle
    /\ given \in [session  : CalcSessions,
                  previous : {<<>>, <<BaseSession(CodeA)>>,
                              <<BaseSession(CodeB)>>},
                  retained : {<<>>,
                              [n \in {CodeA} |->
                                  [BaseSession(CodeA) EXCEPT
                                      !.NumberOfBuffers = 2]]}]
    /\ calc = NotCalculated
    /\ ArgIdle

\* Update stores the displayed snapshot in the map and takes the new one;
\* View then computes the row of the session
Calculate ==
    /\ calc = NotCalculated
    /\ calc' = [done        |-> TRUE,
                utilization |-> UtilizationPercent(given.session),
                totalMemory |-> TotalMemoryMB(given.session),
                hasChanges  |-> HasChangesIn(
                                    StorePrevious(given.retained, given.previous),
                                    given.session)]
    /\ UNCHANGED <<modelVars, runtimeVars, queryVars, exportVars, given, argVars>>

CalcNext == Calculate

CalcSpec == CalcInit /\ [][CalcNext]_vars

\* ------------------------------------------------------------------------
\* model.View on a model of its own (ViewSpec)
\* ------------------------------------------------------------------------
\* the k-th session name: "A", "B", "C", ...
SessionName(k) == <<64 + k>>

\* a session's buffers, free buffers and lost events: 100%, 100% with lost
\* events, exactly 80%, 80% with lost events, and no buffers at all
ViewProfiles ==
    {<<5, 0, 0>>, <<5, 0, 1>>, <<5, 1, 0>>, <<5, 1, 1>>, <<0, 0, 0>>}

\* the snapshots of at most MaxSessions sessions, sorted by name
ViewSnapshots ==
    UNION {{[k \in 1..n |->
                [BaseSession(SessionName(k)) EXCEPT
                    !.NumberOfBuffers = profile[k][1],
                    !.FreeBuffers = profile[k][2],
                    !.EventsLost = profile[k][3]]] :
              profile \in [1..n -> ViewProfiles]} : n \in 0..MaxSessions}

\* a running program whose model holds any snapshot, with or without an
\* error, before or after the quit key
ViewInit ==
    /\ showOnce \in BOOLEAN
    /\ sessions \in ViewSnapshots
    /\ previousSessions = <<>>
    /\ err \in {NoErr, QueryErr(5)}
    /\ exiting \in BOOLEAN
    /\ phase = "running"
    /\ timer = "none"
    /\ queries = <<>>
    /\ quitPending = exiting
    /\ lastMsg = "none"
    /\ lastCmd = {}
    /\ QueryIdle
    /\ ExportIdle
    /\ CalcIdle
    /\ ArgIdle

\* the runtime calls View and draws what it returns
Render ==
    /\ calc = NotCalculated
    /\ calc' = [done |-> TRUE, view |-> View]
    /\ UNCHANGED <<modelVars, runtimeVars, queryVars, exportVars, given, argVars>>

ViewNext == Render

ViewSpec == ViewInit /\ [][ViewNext]_vars

\* ------------------------------------------------------------------------
\* main, case "-interval" (ArgSpec)
\* ------------------------------------------------------------------------
\* int and time.Duration on a 64-bit build are both 64 bits wide; they are
\* scaled down to 8 bits here, and time.Second to 10 units
IntModulus == 2 ^ 8
IntMax == IntModulus \div 2 - 1
Second == 10

\* a product in the signed word: it wraps around
WrapInt(v) ==
    LET m == v % IntModulus
    IN  IF m > IntMax THEN m - IntModulus ELSE m

DecimalDigits == <<"0", "1", "2", "3", "4", "5", "6", "7", "8", "9">>

DigitValue(c) == (CHOOSE i \in DOMAIN DecimalDigits : DecimalDigits[i] = c) - 1

RECURSIVE DecimalValue(_)
DecimalValue(digits) ==
    IF digits = <<>> THEN 0
    ELSE DecimalValue(SubSeq(digits, 1, Len(digits) - 1)) * 10
             + DigitValue(digits[Len(digits)])

IsDigits(text) ==
    /\ text # <<>>
    /\ \A i \in DOMAIN text :
           \E d \in DOMAIN DecimalDigits : DecimalDigits[d] = text[i]

\* strconv.Atoi: an optional sign, then decimal digits only; a value that
\* does not fit int is a range error
Atoi(text) ==
    LET signed == text # <<>> /\ text[1] \in {"+", "-"}
        digits == IF signed THEN Tail(text) ELSE text
    IN  IF ~IsDigits(digits) THEN [value |-> 0, err |-> "syntax"]
        ELSE LET magnitude == DecimalValue(digits)
                 value     == IF text[1] = "-" THEN 0 - magnitude ELSE magnitude
             IN  IF value > IntMax THEN [value |-> IntMax, err |-> "range"]
                 ELSE IF value < 0 - IntMax - 1
                 THEN [value |-> 0 - IntMax - 1, err |-> "range"]
                 ELSE [value |-> value, err |-> "nil"]

\* the duration of tea.Tick in Init and Update:
\* time.Duration(m.intervalSeconds)*time.Second
TickDuration(intervalSeconds) == WrapInt(intervalSeconds * Second)

\* the "-interval" case up to monitor.StartMonitoring(intervalSeconds): the
\* interval of the model, whether the warning was printed, the tick duration
IntervalCase(arguments) ==
    LET parsed == Atoi(arguments[1])
        valid  == Len(arguments) > 0 /\ parsed.err = "nil" /\ parsed.value > 0
        intervalSeconds == IF valid THEN parsed.value ELSE 1
    IN  [done            |-> TRUE,
         intervalSeconds |-> intervalSeconds,
         warned          |-> Len(arguments) > 0 /\ ~valid,
         tick            |-> TickDuration(intervalSeconds)]

\* the characters an argument is made of
ArgChars == {"0", "1", "2", "9", "-", "+", "x"}

\* os.Args[2:]: nothing, or one argument of at most MaxArgLen characters
ArgInit ==
    /\ LoopIdle
    /\ QueryIdle
    /\ ExportIdle
    /\ CalcIdle
    /\ args \in {<<>>} \cup {<<text>> :
                   text \in UNION {[1..n -> ArgChars] : n \in 0..MaxArgLen}}
    /\ started = NotStarted

StartInterval ==
    /\ started = NotStarted
    /\ started' = IntervalCase(args)
    /\ UNCHANGED <<modelVars, runtimeVars, queryVars, exportVars, calcVars, args>>

ArgNext == StartInterval

ArgSpec == ArgInit /\ [][ArgNext]_vars

\* ------------------------------------------------------------------------
\* Claims about the poll loop (Spec)
\* ------------------------------------------------------------------------
Names(snapshot) == {snapshot[i].Name : i \in DOMAIN snapshot}
Records(snapshot) == {snapshot[i] : i \in DOMAIN snapshot}
Retained == {previousSessions[n] : n \in DOMAIN previousSessions}

\* C1: in continuous mode at most one query is in flight at any time: a
\* query is started only after the result of the one before it was handled
\* by Update.
C1_OneQueryInFlight ==
    ~showOnce => Len(queries) <= 1

\* C2: whenever a sessionsMsg is handled, no session of the new snapshot
\* whose name is missing from the snapshot it replaces is flagged changed.
C2_NewSessionNotChanged ==
    [][lastMsg' = "sessionsMsg" =>
          \A i \in DOMAIN sessions' :
              sessions'[i].Name \notin Names(sessions)
                  => ~HasChangesIn(previousSessions', sessions'[i])]_vars

\* C3: after every handled sessionsMsg previousSessions holds exactly the
\* records of the snapshot that was current just before it, and nothing of
\* an older poll.
C3_PreviousIsLastSnapshot ==
    [][lastMsg' = "sessionsMsg" => Retained' = Records(sessions)]_vars

\* C4: in single-shot mode, handling the errMsg of the query makes the
\* program quit: Update returns tea.Quit for it, no key press is needed.
C4_SingleShotErrorQuits ==
    (showOnce /\ lastMsg = "errMsg") => ("quit" \in lastCmd /\ quitPending)

\* C5: once the quit key was handled no query is started, no tick is
\* scheduled, and neither the displayed nor the retained snapshot changes.
C5_NothingAfterQuitKey ==
    [][exiting =>
          /\ Len(queries') <= Len(queries)
          /\ ~(lastMsg' = "tickMsg" /\ "tick" \in lastCmd')
          /\ sessions' = sessions
          /\ previousSessions' = previousSessions]_vars

\* C6: in continuous mode a query failure never stops polling: every
\* handled tick, also one that follows an errMsg, starts a query and arms
\* the timer again, and unless the quit key is pressed queries are started
\* again and again.
C6_PollingSurvivesErrors ==
    /\ [][(~showOnce /\ lastMsg' = "tickMsg") =>
              /\ Len(queries') = Len(queries) + 1
              /\ timer' = "armed"
              /\ lastCmd' = {"tick", "query"}]_vars
    /\ \/ showOnce
       \/ <>exiting
       \/ []<><<lastMsg' = "tickMsg" /\ Len(queries') = Len(queries) + 1>>_vars

\* a tick was just handled while the model held an error, and the query it
\* started is in flight
C6_Witness ==
    /\ ~showOnce
    /\ ~exiting
    /\ err # NoErr
    /\ lastMsg = "tickMsg"
    /\ lastCmd = {"tick", "query"}
    /\ timer = "armed"
    /\ queries # <<>>
    /\ queries[Len(queries)].origin = "tick"

\* C7: in single-shot mode the only query is the one Init starts, a tick
\* starts no query and schedules no tick, and the delivery of the snapshot
\* makes the program quit.
C7_SingleShotOnePoll ==
    [][showOnce =>
          /\ Len(queries') > Len(queries) => lastMsg' = "Init"
          /\ \A i \in DOMAIN queries' : queries'[i].origin = "Init"
          /\ Len(queries') <= 1
          /\ lastMsg' = "tickMsg" =>
                (lastCmd' = {} /\ timer' = "none" /\ queries' = queries)
          /\ lastMsg' = "sessionsMsg" =>
                ("quit" \in lastCmd' /\ quitPending' /\ queries' = <<>>)
          /\ timer' = "armed" => (lastMsg' = "Init" \/ timer = "armed")]_vars

\* single-shot: the tick was handled, the snapshot delivered, Run returned
C7_Witness ==
    /\ showOnce
    /\ ~exiting
    /\ phase = "stopped"
    /\ timer = "none"
    /\ queries = <<>>
    /\ Len(sessions) = 2

\* ------------------------------------------------------------------------
\* Claims about QueryAllSessions (QuerySpec)
\* ------------------------------------------------------------------------
\* C8: QueryAllSessions is all or nothing: a sizing status other than
\* ERROR_MORE_DATA, or a data status other than ERROR_SUCCESS, gives an
\* error with that status and no session; sessions never come with an
\* error; no native call is made twice.
C8_AllOrNothing ==
    result # NotRun =>
        /\ world.sizingRet # ERROR_MORE_DATA =>
              /\ result.err # NoErr
              /\ result.err.code = world.sizingRet
              /\ result.sessions = <<>>
        /\ (/\ world.sizingRet = ERROR_MORE_DATA
            /\ world.sizingCount > 0
            /\ world.dataRet # ERROR_SUCCESS) =>
              /\ result.err # NoErr
              /\ result.err.code = world.dataRet
              /\ result.sessions = <<>>
        /\ result.err # NoErr => result.sessions = <<>>
        /\ Len(result.calls) <= 2
        /\ \A i, j \in DOMAIN result.calls :
              result.calls[i] = result.calls[j] => i = j

\* the data call failed after the subsystem had filled slots
C8_Witness ==
    /\ result # NotRun
    /\ world.sizingRet = ERROR_MORE_DATA
    /\ world.dataRet = ERROR_MORE_DATA
    /\ Len(world.slots) = 2
    /\ result.err = QueryErr(ERROR_MORE_DATA)
    /\ result.sessions = <<>>

\* C9: when the sizing call reports a count of 0 (it answers
\* ERROR_MORE_DATA, the one status with which the count is read),
\* QueryAllSessions returns an empty snapshot and no error and makes no
\* data call.
C9_ZeroCountIsEmpty ==
    (/\ result # NotRun
     /\ world.sizingRet = ERROR_MORE_DATA
     /\ world.sizingCount = 0) =>
        /\ result.sessions = <<>>
        /\ result.err = NoErr
        /\ result.calls = <<[array |-> 0, count |-> 0]>>

\* a count of 0 where a data call would have failed
C9_Witness ==
    /\ result # NotRun
    /\ world.sizingRet = ERROR_MORE_DATA
    /\ world.sizingCount = 0
    /\ world.dataRet = 5
    /\ result.err = NoErr

\* ------------------------------------------------------------------------
\* Claims about the view (Spec)
\* ------------------------------------------------------------------------
\* C10: every row of the table gets the first class that matches, in the
\* order lost events, utilization above 80%, changed, normal; a row at
\* exactly 80% is not high utilization.
C10_SeverityFirstMatch ==
    View.screen = "table" =>
        \A i \in DOMAIN sessions :
            LET s       == sessions[i]
                used    == s.NumberOfBuffers - s.FreeBuffers
                lost    == s.EventsLost > 0
                high    == s.NumberOfBuffers > 0
                             /\ used * 100 > 80 * s.NumberOfBuffers
                exactly == s.NumberOfBuffers > 0
                             /\ used * 100 = 80 * s.NumberOfBuffers
                changed == hasChanges(s)
            IN  /\ lost => View.rows[i] = "lost events"
                /\ (~lost /\ high) => View.rows[i] = "high utilization"
                /\ (~lost /\ ~high /\ changed) => View.rows[i] = "changed"
                /\ (~lost /\ ~high /\ ~changed) => View.rows[i] = "normal"
                /\ exactly => View.rows[i] # "high utilization"

\* a table with a changed row that lost events at 100%, and a row at 80%
C10_Witness ==
    /\ View.screen = "table"
    /\ \E i, j \in DOMAIN sessions :
          /\ sessions[i].EventsLost > 0
          /\ sessions[i].FreeBuffers = 0
          /\ hasChanges(sessions[i])
          /\ View.rows[i] = "lost events"
          /\ sessions[j].EventsLost = 0
          /\ sessions[j].NumberOfBuffers = 5
          /\ sessions[j].FreeBuffers = 1
          /\ View.rows[j] \in {"changed", "normal"}

\* ------------------------------------------------------------------------
\* Claims about the slots and the decoded records (QuerySpec)
\* ------------------------------------------------------------------------
\* C11: in every slot prepared for the data call the two text regions, each
\* MAX_SESSION_NAME_LEN wide characters (2 bytes each) long and starting at
\* LoggerNameOffset and LogFileNameOffset, overlap neither the header nor
\* each other and end within Wnode.BufferSize, which is the header plus both
\* regions.
C11_RegionsFitSlot ==
    \A k \in DOMAIN array :
        LET slot    == array[k]
            header  == SizeofEventTraceProperties(build)
            region  == MAX_SESSION_NAME_LEN * 2
            nameEnd == slot.LoggerNameOffset + region
            fileEnd == slot.LogFileNameOffset + region
        IN  /\ slot.LoggerNameOffset >= header
            /\ slot.LogFileNameOffset >= header
            /\ \/ nameEnd <= slot.LogFileNameOffset
               \/ fileEnd <= slot.LoggerNameOffset
            /\ nameEnd <= slot.WnodeBufferSize
            /\ fileEnd <= slot.WnodeBufferSize
            /\ slot.WnodeBufferSize = header + 2 * region

\* C12: all records of one snapshot returned by QueryAllSessions carry the
\* same Timestamp, also when the clock advances while they are decoded.
C12_OneTimestampPerPoll ==
    (result # NotRun /\ result.err = NoErr) =>
        \A i, j \in DOMAIN result.sessions :
            result.sessions[i].Timestamp = result.sessions[j].Timestamp

\* ------------------------------------------------------------------------
\* Claims about the export (ExportSpec)
\* ------------------------------------------------------------------------
\* C13: whenever the header or a record does not reach the file, also when
\* the write fails only at the final Flush of the csv.Writer, ExportToCSV
\* returns an error and does not announce the export.
C13_ExportReportsLostRows ==
    (export.called /\ Len(export.file) < 1 + Len(result.sessions)) =>
        (export.err # NoErr /\ ~export.announced)

\* ------------------------------------------------------------------------
\* Claims about the calculated properties (CalcSpec)
\* ------------------------------------------------------------------------
\* C14: for a session with NumberOfBuffers >= FreeBuffers >= 0 the
\* utilization is a value from 0 to 100, and it is exactly 0 when the
\* session has no buffers.
C14_UtilizationInRange ==
    (/\ calc.done
     /\ given.session.FreeBuffers >= 0
     /\ given.session.NumberOfBuffers >= given.session.FreeBuffers) =>
        /\ calc.utilization.den > 0
        /\ calc.utilization.num >= 0
        /\ calc.utilization.num <= 100 * calc.utilization.den
        /\ given.session.NumberOfBuffers = 0 => calc.utilization.num = 0

\* a session without buffers, and so without free buffers
C14_Witness ==
    /\ calc.done
    /\ given.session.NumberOfBuffers = 0
    /\ given.session.FreeBuffers = 0
    /\ calc.utilization.num = 0

\* ------------------------------------------------------------------------
\* Claims about the order of a snapshot (QuerySpec)
\* ------------------------------------------------------------------------
\* C15: every snapshot a successful QueryAllSessions returns is in ascending
\* order of Name, whatever the order in which the subsystem filled the slots.
C15_SnapshotSortedByName ==
    (result # NotRun /\ result.err = NoErr) =>
        \A i, j \in DOMAIN result.sessions :
            i < j => ~StrLess(result.sessions[j].Name, result.sessions[i].Name)

\* the subsystem returned session B before session A
C15_Witness ==
    /\ result # NotRun
    /\ result.err = NoErr
    /\ Len(world.slots) = 2
    /\ utf16PtrToString(world.slots[1].LoggerName) = CodeB
    /\ utf16PtrToString(world.slots[2].LoggerName) = CodeA
    /\ Len(result.sessions) = 2
    /\ result.sessions[1].Name = CodeA
    /\ result.sessions[2].Name = CodeB

\* ------------------------------------------------------------------------
\* Claims about the rendered view (ViewSpec)
\* ------------------------------------------------------------------------
\* C16: the warning summary counts the sessions with a utilization above
\* 80% and the sessions with lost events independently of each other (a
\* session with both is in both counts), and the warning box is rendered
\* exactly when one of the two counts is not 0.
C16_WarningCounts ==
    (calc.done /\ calc.view.screen = "table" /\ sessions # <<>>) =>
        LET high == {i \in DOMAIN sessions :
                        /\ sessions[i].NumberOfBuffers > 0
                        /\ (sessions[i].NumberOfBuffers
                               - sessions[i].FreeBuffers) * 100
                             > 80 * sessions[i].NumberOfBuffers}
            lost == {i \in DOMAIN sessions : sessions[i].EventsLost > 0}
            box  == calc.view.warningBox
        IN  /\ box.highUtilSessions = Cardinality(high)
            /\ box.lostEventSessions = Cardinality(lost)
            /\ box.shown <=> (high # {} \/ lost # {})
            /\ "high buffer utilization" \in box.bullets <=> high # {}
            /\ "lost events" \in box.bullets <=> lost # {}

\* one session is above 80% and lost events, the other only lost events
C16_Witness ==
    /\ calc.done
    /\ calc.view.screen = "table"
    /\ Len(sessions) = 2
    /\ sessions[1].FreeBuffers = 0
    /\ sessions[1].EventsLost > 0
    /\ sessions[2].FreeBuffers = 1
    /\ sessions[2].EventsLost > 0
    /\ calc.view.warningBox.shown
    /\ calc.view.warningBox.highUtilSessions = 1
    /\ calc.view.warningBox.lostEventSessions = 2

\* ------------------------------------------------------------------------
\* Claims about the command line (ArgSpec)
\* ------------------------------------------------------------------------
\* C17: whatever follows -interval (nothing, text that is no number, zero, a
\* negative number, a positive integer), monitoring starts with a whole
\* number of seconds that is at least 1: a positive integer is used as it
\* was given, as the model's interval and as the period of its ticks, and
\* anything else gives 1.
C17_IntervalAtLeastOne ==
    started.done =>
        LET text     == IF args = <<>> THEN <<>> ELSE args[1]
            digits   == IF text # <<>> /\ text[1] = "+" THEN Tail(text) ELSE text
            positive == IsDigits(digits) /\ DecimalValue(digits) > 0
            given1   == IF positive THEN DecimalValue(digits) ELSE 1
        IN  /\ started.intervalSeconds >= 1
            /\ started.intervalSeconds = given1
            /\ started.tick = given1 * Second

\* ------------------------------------------------------------------------
\* Claims about errors and the order of snapshots in the poll loop (Spec)
\* ------------------------------------------------------------------------
\* C18: in continuous mode the view is the error screen only while the poll
\* that completed last failed: right after an errMsg was handled it is the
\* error screen, and right after a sessionsMsg was handled, also one that
\* follows a failure, it is the table again.
C18_ErrorClearsOnSuccess ==
    (~showOnce /\ ~exiting) =>
        /\ lastMsg = "errMsg" => View.screen = "error"
        /\ lastMsg = "sessionsMsg" => View.screen = "table"

\* C19: snapshots are applied in the order in which their queries were
\* started: a sessionsMsg that is handled never comes from a query started
\* before the query whose snapshot it replaces, so the displayed snapshot
\* is never older than the retained one.
C19_SnapshotsInStartOrder ==
    [][lastMsg' = "sessionsMsg" =>
          \E i \in DOMAIN queries :
              /\ ~queries[i].older
              /\ queries' = Remove(MarkOlder(queries, i), i)]_vars

\* ------------------------------------------------------------------------
\* Claims about change detection (CalcSpec)
\* ------------------------------------------------------------------------
\* C20: a session that was in the snapshot displayed just before is flagged
\* as changed exactly when NumberOfBuffers, FreeBuffers, EventsLost or
\* BuffersWritten differs from its record in that snapshot; a difference in
\* any other field alone does not flag it.
C20_ChangedIffCounterDiffers ==
    calc.done =>
        \A i \in DOMAIN given.previous :
            given.previous[i].Name = given.session.Name =>
                LET before == given.previous[i]
                    now    == given.session
                IN  calc.hasChanges <=>
                        \/ before.NumberOfBuffers # now.NumberOfBuffers
                        \/ before.FreeBuffers # now.FreeBuffers
                        \/ before.EventsLost # now.EventsLost
                        \/ before.BuffersWritten # now.BuffersWritten

\* the session kept its four counters and differs in every other field,
\* with a record of an older poll in the map: not flagged
C20_Witness ==
    /\ calc.done
    /\ given.previous = <<BaseSession(CodeA)>>
    /\ given.retained # <<>>
    /\ given.session = Touched(BaseSession(CodeA), OtherFields)
    /\ ~calc.hasChanges

\* ------------------------------------------------------------------------
\* Claims about the reported memory (CalcSpec)
\* ------------------------------------------------------------------------
\* C21: for every NumberOfBuffers and BufferSize of the word's width the
\* reported total memory is the exact product NumberOfBuffers * BufferSize
\* divided by 1024: nothing is lost to a wraparound of the product.
C21_TotalMemoryExact ==
    calc.done =>
        calc.totalMemory.num * 1024
            = given.session.NumberOfBuffers * given.session.BufferSize
                  * calc.totalMemory.den

\* ------------------------------------------------------------------------
\* Claims about the reads of the decoder (QuerySpec)
\* ------------------------------------------------------------------------
\* C22: whatever the subsystem left in a text region, the scan of
\* utf16PtrToString stops at a zero code unit or at the end of the region:
\* it reads no code unit behind the region, and so none at or behind the end
\* of the slot.
C22_ScanStaysInRegion ==
    \A i \in DOMAIN scanned :
        /\ scanned[i].name <= Len(world.slots[i].LoggerName)
        /\ scanned[i].file <= Len(world.slots[i].LogFileName)

\* ------------------------------------------------------------------------
\* Claims about a failed query in export mode (ExportSpec)
\* ------------------------------------------------------------------------
\* C23: when QueryAllSessions fails in export mode the invocation ends
\* with the fatal query error before the export step: ExportToCSV is not
\* called, and the output file is neither created nor written.
C23_QueryFailureSkipsExport ==
    (result # NotRun /\ result.err # NoErr) =>
        /\ ~export.called
        /\ ~export.created
        /\ export.file = <<>>
        /\ ~export.announced
        /\ export.fatal \in {"none", "Error querying sessions"}

\* the query failed on a file system that would have taken the file
C23_Witness ==
    /\ result # NotRun
    /\ result.err # NoErr
    /\ disk.createOK
    /\ disk.room > 0
    /\ export.fatal = "Error querying sessions"
    /\ ~export.created

====
